---- MODULE Spec2Model ----
(***************************************************************************)
(* A model of bm25comp: BM25Builder (src/src/bm25comp/builder.py) and      *)
(* BM25Reader (src/src/bm25comp/reader.py), with the binary index file     *)
(* between them modelled byte by byte.                                     *)
(*                                                                         *)
(* Representation                                                          *)
(*   str      a sequence of Unicode code points (<<97, 98>> is "ab")       *)
(*   bytes    a sequence of numbers 0..255                                 *)
(*   float    a rational <<n, d>> in lowest terms, d > 0.  A Python float  *)
(*            (binary64) that is the result of n/d for the small n, d of   *)
(*            this model is held as that rational; a binary32 value read   *)
(*            from a file is held as the exact dyadic rational it denotes. *)
(*            For small n, d the double nearest n/d equals a binary32      *)
(*            value exactly when n/d itself is one, so equality of the     *)
(*            rationals is equality of the Python floats.  The scores of   *)
(*            the Reader are computed on these rationals, with math.log    *)
(*            held at a fixed resolution (LogScale).                       *)
(*   dict     a function whose DOMAIN is the key set; the inner dicts of   *)
(*            temp_postings keep insertion order (a sequence of pairs),    *)
(*            because build() sorts them.                                  *)
(*   key      a record: an int key [kind |-> "int", int |-> 10, ...] or a  *)
(*            str key [kind |-> "str", str |-> <<233>>, ...]               *)
(***************************************************************************)
EXTENDS Integers, Sequences, FiniteSets, TLC

VARIABLES bld, rdr, files, history, result

vars == <<bld, rdr, files, history, result>>

\* ------------------------------------------------------------------ bounds

\* The number of successful add/add_tokenized calls explored.
MaxAdds == 3

\* ----------------------------------------------------------------- helpers

EmptyMap == [x \in {} |-> 0]

RECURSIVE Pow2(_)
Pow2(k) == IF k <= 0 THEN 1 ELSE 2 * Pow2(k - 1)

RECURSIVE GCD(_, _)
GCD(a, b) == IF b = 0 THEN a ELSE GCD(b, a % b)

\* The rational n/d in lowest terms.
Rat(n, d) == LET g == GCD(n, d) IN IF n = 0 THEN <<0, 1>> ELSE <<n \div g, d \div g>>

Abs(n) == IF n < 0 THEN 0 - n ELSE n

\* float arithmetic, on rationals in lowest terms: x + y, x - y, x * y, x / y
\* (y nonzero) and x < y.
RAdd(x, y) ==
    LET g == GCD(x[2], y[2])
    IN Rat(x[1] * (y[2] \div g) + y[1] * (x[2] \div g), (x[2] \div g) * y[2])
RSub(x, y) == RAdd(x, <<0 - y[1], y[2]>>)
RMul(x, y) ==
    LET g1 == GCD(Abs(x[1]), y[2])
        g2 == GCD(Abs(y[1]), x[2])
    IN Rat((x[1] \div g1) * (y[1] \div g2), (x[2] \div g2) * (y[2] \div g1))
RDiv(x, y) == RMul(x, IF y[1] > 0 THEN <<y[2], y[1]>> ELSE <<0 - y[2], 0 - y[1]>>)
RLess(x, y) ==
    LET g == GCD(x[2], y[2])
    IN x[1] * (y[2] \div g) < y[1] * (x[2] \div g)

RECURSIVE Concat(_)
Concat(ss) == IF ss = <<>> THEN <<>> ELSE Head(ss) \o Concat(Tail(ss))

\* Python's int - str conversion for a non-negative int.
RECURSIVE Digits(_)
Digits(n) == IF n < 10 THEN <<48 + n>> ELSE Append(Digits(n \div 10), 48 + (n % 10))

\* str(key)
Str(key) == IF key.kind = "int" THEN Digits(key.int) ELSE key.str

\* Python's order on str: lexicographic by code point.
RECURSIVE StrLess(_, _)
StrLess(a, b) ==
    IF b = <<>> THEN FALSE
    ELSE IF a = <<>> THEN TRUE
    ELSE IF Head(a) # Head(b) THEN Head(a) < Head(b)
    ELSE StrLess(Tail(a), Tail(b))

\* Python's order on (doc_id, freq) tuples.
PairLess(p, q) == p[1] < q[1] \/ (p[1] = q[1] /\ p[2] < q[2])

\* sorted() of a set of ints, ascending.
RECURSIVE SortedInts(_)
SortedInts(S) ==
    IF S = {} THEN <<>>
    ELSE LET m == CHOOSE x \in S : \A y \in S : x <= y
         IN <<m>> \o SortedInts(S \ {m})

\* Faulty variant: the strs in descending order.
RECURSIVE SortedStrsDescending(_)
SortedStrsDescending(S) ==
    IF S = {} THEN <<>>
    ELSE LET m == CHOOSE x \in S : \A y \in S : x = y \/ StrLess(y, x)
         IN <<m>> \o SortedStrsDescending(S \ {m})

\* sorted() of a set of strs, ascending.
RECURSIVE SortedStrs(_)
SortedStrs(S) ==
    IF S = {} THEN <<>>
    ELSE LET m == CHOOSE x \in S : \A y \in S : x = y \/ StrLess(x, y)
         IN <<m>> \o SortedStrs(S \ {m})

\* Insertion of a pair into a list sorted by PairLess.
RECURSIVE InsertPair(_, _)
InsertPair(p, s) ==
    IF s = <<>> THEN <<p>>
    ELSE IF PairLess(Head(s), p) THEN <<Head(s)>> \o InsertPair(p, Tail(s))
    ELSE <<p>> \o s

\* Faulty variant: the pairs stay in insertion order.
SortedPairsUnsorted(s) == s

RECURSIVE SortedPairs(_)
SortedPairs(s) == IF s = <<>> THEN <<>> ELSE InsertPair(Head(s), SortedPairs(Tail(s)))

\* ------------------------------------------------------------ tokenization

IsSpace(c) == c \in {9, 10, 11, 12, 13, 32}

\* str.lower() on the code points of ASCII and Latin-1.
LowerChar(c) ==
    IF (c >= 65 /\ c <= 90) \/ (c >= 192 /\ c <= 222 /\ c # 215) THEN c + 32 ELSE c

Lower(s) == [i \in 1..Len(s) |-> LowerChar(s[i])]

\* str.split(): the maximal runs of non-whitespace, in order.
RECURSIVE SplitFrom(_, _, _)
SplitFrom(s, cur, out) ==
    IF s = <<>> THEN (IF cur = <<>> THEN out ELSE Append(out, cur))
    ELSE IF IsSpace(Head(s))
         THEN SplitFrom(Tail(s), <<>>, IF cur = <<>> THEN out ELSE Append(out, cur))
         ELSE SplitFrom(Tail(s), Append(cur, Head(s)), out)

Split(s) == SplitFrom(s, <<>>, <<>>)

tokenize(text) == Split(Lower(text))

\* ----------------------------------------------------------------- Builder

\* BM25Builder.__init__(k1, b)
BuilderInit(k1, b) ==
    [ k1            |-> k1,
      b             |-> b,
      key_to_id     |-> EmptyMap,
      id_to_key     |-> EmptyMap,
      next_doc_id   |-> 0,
      temp_postings |-> EmptyMap,
      doc_lengths   |-> EmptyMap,
      total_length  |-> 0,
      num_docs      |-> 0,
      term_doc_freq |-> EmptyMap,
      postings      |-> EmptyMap,
      avgdl         |-> <<0, 1>>,
      built         |-> FALSE ]

\* The outcome of a call: the object after it, the exception raised ("none" when
\* the call returns) and the value returned.
Returns(st, ret) == [st |-> st, exc |-> "none", ret |-> ret]
Raises(st, exc) == [st |-> st, exc |-> exc, ret |-> <<>>]

\* d[k] = v on a dict
DictSet(d, k, v) == [x \in DOMAIN d \cup {k} |-> IF x = k THEN v ELSE d[x]]

\* Faulty variant: a repeated term is recorded once, not counted.
IncrementOnce(counts, doc_id) ==
    IF \E i \in 1..Len(counts) : counts[i][1] = doc_id THEN counts
    ELSE Append(counts, <<doc_id, 1>>)

\* counts[doc_id] += 1 on an insertion-ordered defaultdict(int)
Increment(counts, doc_id) ==
    IF \E i \in 1..Len(counts) : counts[i][1] = doc_id
    THEN [i \in 1..Len(counts) |->
            IF counts[i][1] = doc_id THEN <<doc_id, counts[i][2] + 1>> ELSE counts[i]]
    ELSE Append(counts, <<doc_id, 1>>)

\* for term in tokens: self.temp_postings[term][doc_id] += 1
RECURSIVE CountTerms(_, _, _)
CountTerms(tp, tokens, doc_id) ==
    IF tokens = <<>> THEN tp
    ELSE LET term == Head(tokens)
             old  == IF term \in DOMAIN tp THEN tp[term] ELSE <<>>
         IN CountTerms(DictSet(tp, term, Increment(old, doc_id)), Tail(tokens), doc_id)

\* Faulty variant: every call takes a fresh doc ID, also for a key seen before.
MapKeyAlwaysNew(b, key) ==
    [b EXCEPT !.key_to_id   = DictSet(b.key_to_id, key, b.next_doc_id),
              !.id_to_key   = DictSet(b.id_to_key, b.next_doc_id, key),
              !.next_doc_id = b.next_doc_id + 1]

\* Faulty variant: IDs are handed out from 1.
MapKeyFromOne(b, key) ==
    IF key \notin DOMAIN b.key_to_id
    THEN [b EXCEPT !.key_to_id   = DictSet(b.key_to_id, key, b.next_doc_id + 1),
                   !.id_to_key   = DictSet(b.id_to_key, b.next_doc_id + 1, key),
                   !.next_doc_id = b.next_doc_id + 1]
    ELSE b

\* The first half of add_tokenized: the key's doc ID, registered if the key is new.
MapKey(b, key) ==
    IF key \notin DOMAIN b.key_to_id
    THEN [b EXCEPT !.key_to_id   = DictSet(b.key_to_id, key, b.next_doc_id),
                   !.id_to_key   = DictSet(b.id_to_key, b.next_doc_id, key),
                   !.next_doc_id = b.next_doc_id + 1]
    ELSE b

\* Faulty variant: add_tokenized never refuses.
AddRefusedNever(b) == FALSE

\* if self.built: add_tokenized refuses
AddRefused(b) == b.built

\* Faulty variant: an empty token list gets a key and an ID but no length entry.
add_tokenizedSkipEmpty(b, key, tokens) ==
    IF AddRefused(b) THEN Raises(b, "RuntimeError")
    ELSE LET m          == MapKey(b, key)
             doc_id     == m.key_to_id[key]
             doc_length == Len(tokens)
         IN Returns([m EXCEPT !.doc_lengths   = IF tokens = <<>> THEN m.doc_lengths
                                                ELSE DictSet(m.doc_lengths, doc_id, doc_length),
                              !.total_length  = m.total_length + doc_length,
                              !.num_docs      = m.num_docs + 1,
                              !.temp_postings = CountTerms(m.temp_postings, tokens, doc_id)],
                    <<>>)

\* Faulty variant: the length recorded at the first call under a key is kept.
add_tokenizedKeepFirst(b, key, tokens) ==
    IF AddRefused(b) THEN Raises(b, "RuntimeError")
    ELSE LET m          == MapKey(b, key)
             doc_id     == m.key_to_id[key]
             doc_length == Len(tokens)
         IN Returns([m EXCEPT !.doc_lengths   = IF doc_id \in DOMAIN m.doc_lengths
                                                THEN m.doc_lengths
                                                ELSE DictSet(m.doc_lengths, doc_id, doc_length),
                              !.total_length  = m.total_length + doc_length,
                              !.num_docs      = m.num_docs + 1,
                              !.temp_postings = CountTerms(m.temp_postings, tokens, doc_id)],
                    <<>>)

\* BM25Builder.add_tokenized(key, tokens)
add_tokenized(b, key, tokens) ==
    IF AddRefused(b) THEN Raises(b, "RuntimeError")
    ELSE LET m          == MapKey(b, key)
             doc_id     == m.key_to_id[key]
             doc_length == Len(tokens)
         IN Returns([m EXCEPT !.doc_lengths   = DictSet(m.doc_lengths, doc_id, doc_length),
                              !.total_length  = m.total_length + doc_length,
                              !.num_docs      = m.num_docs + 1,
                              !.temp_postings = CountTerms(m.temp_postings, tokens, doc_id)],
                    <<>>)

\* Faulty variant: add splits the text without lowercasing it.
addNoLower(b, key, content) == add_tokenized(b, key, Split(content))

\* BM25Builder.add(key, content)
add(b, key, content) == add_tokenized(b, key, tokenize(content))

\* Faulty variant: build accepts an empty Builder.
NoDocumentsIgnored(b) == FALSE

\* if self.num_docs == 0: build refuses
NoDocuments(b) == b.num_docs = 0

\* Faulty variant: the mean over the entries of the length table, not over the calls.
AverageLengthPerId(b) ==
    IF b.num_docs > 0 THEN Rat(b.total_length, Cardinality(DOMAIN b.doc_lengths))
    ELSE <<0, 1>>

\* Faulty variant: the average is left at its initial 0.0.
AverageLengthZero(b) == <<0, 1>>

\* self.total_length / self.num_docs if self.num_docs > 0 else 0.0
AverageLength(b) == IF b.num_docs > 0 THEN Rat(b.total_length, b.num_docs) ELSE <<0, 1>>

\* BM25Builder.build()
build(b) ==
    IF b.built THEN Raises(b, "RuntimeError")
    ELSE IF NoDocuments(b) THEN Raises(b, "ValueError")
    ELSE Returns([b EXCEPT
            !.avgdl         = AverageLength(b),
            !.term_doc_freq = [t \in DOMAIN b.term_doc_freq \cup DOMAIN b.temp_postings |->
                                 IF t \in DOMAIN b.temp_postings
                                 THEN Len(b.temp_postings[t]) ELSE b.term_doc_freq[t]],
            !.postings      = [t \in DOMAIN b.postings \cup DOMAIN b.temp_postings |->
                                 IF t \in DOMAIN b.temp_postings
                                 THEN SortedPairs(b.temp_postings[t]) ELSE b.postings[t]],
            !.temp_postings = EmptyMap,
            !.built         = TRUE], <<>>)

\* ------------------------------------------------------------- file format

\* "BM25", the magic number, and the format version.
MAGIC == 1112355381
VERSION == 1

Min(a, b) == IF a <= b THEN a ELSE b

\* struct.pack("!I", v): four bytes, big-endian (the values of this model are
\* far below 2^32, where struct.pack raises struct.error).
PackU32(v) == <<v \div 16777216, (v \div 65536) % 256, (v \div 256) % 256, v % 256>>

\* struct.unpack("!I", bs)[0] of four bytes.
UnpackU32(bs) == bs[1] * 16777216 + bs[2] * 65536 + bs[3] * 256 + bs[4]

\* The binary exponent of a positive rational: the e with 2^e <= n/d < 2^(e+1).
RECURSIVE ExponentUp(_, _, _)
ExponentUp(n, d, e) == IF n < 2 * d THEN e ELSE ExponentUp(n, 2 * d, e + 1)
RECURSIVE ExponentDown(_, _, _)
ExponentDown(n, d, e) == IF n >= d THEN e ELSE ExponentDown(2 * n, d, e - 1)
Exponent(n, d) == IF n >= d THEN ExponentUp(n, d, 0) ELSE ExponentDown(n, d, 0)

\* The sign, exponent and fraction fields of the IEEE 754 binary32 value nearest
\* a non-negative float x (round to nearest, ties to even), as one 32-bit number.
Float32Bits(x) ==
    IF x[1] = 0 THEN 0
    ELSE LET e    == Exponent(x[1], x[2])
             num  == IF e <= 23 THEN x[1] * Pow2(23 - e) ELSE x[1]
             den  == IF e <= 23 THEN x[2] ELSE x[2] * Pow2(e - 23)
             q    == num \div den
             rem  == num % den
             m    == IF 2 * rem > den \/ (2 * rem = den /\ q % 2 = 1) THEN q + 1 ELSE q
             e2   == IF m = 16777216 THEN e + 1 ELSE e
             m2   == IF m = 16777216 THEN 8388608 ELSE m
         IN (e2 + 127) * 8388608 + (m2 - 8388608)

\* struct.pack("!f", x)
PackF32(x) == PackU32(Float32Bits(x))

\* struct.unpack("!f", bs)[0] of four bytes with the sign bit clear: the float
\* the binary32 value widens to.
UnpackF32(bs) ==
    LET exp  == (bs[1] % 128) * 2 + (bs[2] \div 128)
        frac == (bs[2] % 128) * 65536 + bs[3] * 256 + bs[4]
    IN IF exp = 0 /\ frac = 0 THEN <<0, 1>>
       ELSE IF exp >= 150 THEN Rat((8388608 + frac) * Pow2(exp - 150), 1)
       ELSE Rat(8388608 + frac, Pow2(150 - exp))

\* s.encode("utf-8") of a str without surrogates below U+10000.
RECURSIVE EncodeUtf8(_)
EncodeUtf8(s) ==
    IF s = <<>> THEN <<>>
    ELSE LET c == Head(s)
         IN (IF c < 128 THEN <<c>>
             ELSE IF c < 2048 THEN <<192 + (c \div 64), 128 + (c % 64)>>
             ELSE <<224 + (c \div 4096), 128 + ((c \div 64) % 64), 128 + (c % 64)>>)
            \o EncodeUtf8(Tail(s))

IsCont(x) == x >= 128 /\ x <= 191

\* bs.decode("utf-8"): [ok |-> TRUE, str |-> s], or ok = FALSE where Python
\* raises UnicodeDecodeError.
RECURSIVE DecodeUtf8(_, _)
DecodeUtf8(bs, out) ==
    IF bs = <<>> THEN [ok |-> TRUE, str |-> out]
    ELSE LET b1 == bs[1]
         IN IF b1 < 128 THEN DecodeUtf8(Tail(bs), Append(out, b1))
            ELSE IF b1 >= 194 /\ b1 <= 223 /\ Len(bs) >= 2 /\ IsCont(bs[2])
                 THEN DecodeUtf8(SubSeq(bs, 3, Len(bs)),
                                 Append(out, (b1 - 192) * 64 + (bs[2] - 128)))
            ELSE IF b1 >= 224 /\ b1 <= 239 /\ Len(bs) >= 3 /\ IsCont(bs[2]) /\ IsCont(bs[3])
                    /\ (b1 - 224) * 4096 + (bs[2] - 128) * 64 + (bs[3] - 128) >= 2048
                    /\ ~ ((b1 - 224) * 4096 + (bs[2] - 128) * 64 >= 55296
                          /\ (b1 - 224) * 4096 + (bs[2] - 128) * 64 < 57344)
                 THEN DecodeUtf8(SubSeq(bs, 4, Len(bs)),
                                 Append(out, (b1 - 224) * 4096 + (bs[2] - 128) * 64
                                             + (bs[3] - 128)))
            ELSE [ok |-> FALSE, str |-> out]

\* ------------------------------------------------------------ Builder.save

\* The key mapping section's records: doc_id, key_length, key_bytes.
KeyRecord(b, doc_id) ==
    LET key_bytes == EncodeUtf8(Str(b.id_to_key[doc_id]))
    IN PackU32(doc_id) \o PackU32(Len(key_bytes)) \o key_bytes

\* Faulty variant: the length is written before the doc_id.
DocLengthRecordSwapped(b, doc_id) == PackU32(b.doc_lengths[doc_id]) \o PackU32(doc_id)

\* The doc lengths section's records: doc_id, length.
DocLengthRecord(b, doc_id) == PackU32(doc_id) \o PackU32(b.doc_lengths[doc_id])

\* for doc_id, freq in postings_list: write doc_id, freq
PostingBytes(postings_list) ==
    Concat([i \in 1..Len(postings_list) |->
              PackU32(postings_list[i][1]) \o PackU32(postings_list[i][2])])

\* The postings section's records: term_length, term_bytes, num_postings, postings.
TermRecord(b, term) ==
    LET term_bytes    == EncodeUtf8(term)
        postings_list == b.postings[term]
    IN PackU32(Len(term_bytes)) \o term_bytes \o PackU32(Len(postings_list))
       \o PostingBytes(postings_list)

\* Faulty variant: b is written before k1.
HeaderBytesSwapped(b) ==
    PackU32(MAGIC) \o PackU32(VERSION)
    \o PackF32(b.b) \o PackF32(b.k1) \o PackF32(b.avgdl)
    \o PackU32(b.num_docs) \o PackU32(Cardinality(DOMAIN b.postings))

\* The header: magic, version, k1, b, avgdl, num_docs, num_terms.
HeaderBytes(b) ==
    PackU32(MAGIC) \o PackU32(VERSION)
    \o PackF32(b.k1) \o PackF32(b.b) \o PackF32(b.avgdl)
    \o PackU32(b.num_docs) \o PackU32(Cardinality(DOMAIN b.postings))

\* Everything save() writes to the file, in order.
SaveBytes(b) ==
    LET ids   == SortedInts(DOMAIN b.id_to_key)
        lens  == SortedInts(DOMAIN b.doc_lengths)
        terms == SortedStrs(DOMAIN b.postings)
    IN HeaderBytes(b)
       \o PackU32(Cardinality(DOMAIN b.id_to_key))
       \o Concat([i \in 1..Len(ids) |-> KeyRecord(b, ids[i])])
       \o PackU32(Cardinality(DOMAIN b.doc_lengths))
       \o Concat([i \in 1..Len(lens) |-> DocLengthRecord(b, lens[i])])
       \o Concat([i \in 1..Len(terms) |-> TermRecord(b, terms[i])])

\* Faulty variant: the file is opened for appending, not truncated.
saveAppending(b, fs, filepath) ==
    IF ~ b.built THEN Raises(fs, "RuntimeError")
    ELSE Returns(DictSet(fs, filepath,
                         (IF filepath \in DOMAIN fs THEN fs[filepath] ELSE <<>>) \o SaveBytes(b)),
                 <<>>)

\* BM25Builder.save(filepath) on the file system fs: the outcome's st is the file
\* system after the call (the Builder is only read).
save(b, fs, filepath) ==
    IF ~ b.built THEN Raises(fs, "RuntimeError")
    ELSE Returns(DictSet(fs, filepath, SaveBytes(b)), <<>>)

\* ------------------------------------------------------------------ Reader

\* BM25Reader.__init__()
ReaderInit ==
    [ k1            |-> <<0, 1>>,
      b             |-> <<0, 1>>,
      avgdl         |-> <<0, 1>>,
      num_docs      |-> 0,
      num_terms     |-> 0,
      id_to_key     |-> EmptyMap,
      doc_lengths   |-> EmptyMap,
      postings      |-> EmptyMap,
      term_doc_freq |-> EmptyMap,
      loaded        |-> FALSE ]

\* The position of load() in the open file f: the Reader as assigned so far, the
\* bytes consumed, the exception raised so far ("none" while running), the value
\* last read (val) and the locals doc_id and postings_list.
Cursor(r) ==
    [r |-> r, pos |-> 0, exc |-> "none", val |-> 0, doc_id |-> 0, postings_list |-> <<>>]

\* f.read(n): up to n bytes, fewer at the end of the file.
Read(c, f, n) ==
    IF c.exc # "none" THEN c
    ELSE [c EXCEPT !.val = SubSeq(f, c.pos + 1, Min(c.pos + n, Len(f))),
                   !.pos = Min(c.pos + n, Len(f))]

\* struct.unpack of the four bytes in val: struct.error on fewer.
Unpack4(c, isFloat) ==
    IF c.exc # "none" THEN c
    ELSE IF Len(c.val) # 4 THEN [c EXCEPT !.exc = "struct.error"]
    ELSE [c EXCEPT !.val = IF isFloat THEN UnpackF32(c.val) ELSE UnpackU32(c.val)]

\* struct.unpack("!I", f.read(4))[0]
ReadU32(c, f) == Unpack4(Read(c, f, 4), FALSE)

\* struct.unpack("!f", f.read(4))[0]
ReadF32(c, f) == Unpack4(Read(c, f, 4), TRUE)

\* val.decode("utf-8") of the bytes in val
Decode(c) ==
    IF c.exc # "none" THEN c
    ELSE IF ~ DecodeUtf8(c.val, <<>>).ok THEN [c EXCEPT !.exc = "UnicodeDecodeError"]
    ELSE [c EXCEPT !.val = DecodeUtf8(c.val, <<>>).str]

\* A length, then that many bytes, decoded: f.read(length).decode("utf-8")
ReadSized(c, f) == IF c.exc # "none" THEN c ELSE Decode(Read(c, f, c.val))
ReadStr(c, f) == ReadSized(ReadU32(c, f), f)

\* Faulty variant: the value read is not verified.
ExpectAnything(c, v) == c

\* raise ValueError unless the value read is the expected one
Expect(c, v) ==
    IF c.exc = "none" /\ c.val # v THEN [c EXCEPT !.exc = "ValueError"] ELSE c

\* self.<field> = val
Assign(c, field) == IF c.exc # "none" THEN c ELSE [c EXCEPT !.r[field] = c.val]

\* self.<field>[doc_id] = val
AssignAt(c, field) ==
    IF c.exc # "none" THEN c
    ELSE [c EXCEPT !.r[field] = DictSet(c.r[field], c.doc_id, c.val)]

\* doc_id = val
SetDocId(c) == IF c.exc # "none" THEN c ELSE [c EXCEPT !.doc_id = c.val]

\* The magic number and the version, verified.
LoadMagic(c, f) == Expect(ReadU32(Expect(ReadU32(c, f), MAGIC), f), VERSION)

\* The BM25 parameters and statistics: k1, b, avgdl, num_docs, num_terms.
LoadHeader(c, f) ==
    Assign(ReadU32(
        Assign(ReadU32(
            Assign(ReadF32(
                Assign(ReadF32(
                    Assign(ReadF32(c, f), "k1"),
                    f), "b"),
                f), "avgdl"),
            f), "num_docs"),
        f), "num_terms")

\* for _ in range(n): a key mapping record: doc_id, key_length, key_bytes
RECURSIVE LoadKeys(_, _, _)
LoadKeys(c, f, n) ==
    IF c.exc # "none" \/ n <= 0 THEN c
    ELSE LoadKeys(AssignAt(ReadStr(SetDocId(ReadU32(c, f)), f), "id_to_key"), f, n - 1)

\* num_keys, then the key mapping section
LoadKeySection(c, f) == IF c.exc # "none" THEN c ELSE LoadKeys(c, f, c.val)

\* for _ in range(n): a doc length record: doc_id, length
RECURSIVE LoadDocLengths(_, _, _)
LoadDocLengths(c, f, n) ==
    IF c.exc # "none" \/ n <= 0 THEN c
    ELSE LoadDocLengths(AssignAt(ReadU32(SetDocId(ReadU32(c, f)), f), "doc_lengths"),
                        f, n - 1)

\* num_doc_lengths, then the doc lengths section
LoadDocLengthSection(c, f) == IF c.exc # "none" THEN c ELSE LoadDocLengths(c, f, c.val)

\* postings_list.append((doc_id, freq))
AppendPosting(c) ==
    IF c.exc # "none" THEN c
    ELSE [c EXCEPT !.postings_list = Append(c.postings_list, <<c.doc_id, c.val>>)]

\* for _ in range(n): a posting: doc_id, freq
RECURSIVE LoadPostingsList(_, _, _)
LoadPostingsList(c, f, n) ==
    IF c.exc # "none" \/ n <= 0 THEN c
    ELSE LoadPostingsList(AppendPosting(ReadU32(SetDocId(ReadU32(c, f)), f)), f, n - 1)

\* self.postings[term] = postings_list; self.term_doc_freq[term] = num_postings
StorePostings(c, term, num_postings) ==
    IF c.exc # "none" THEN c
    ELSE [c EXCEPT !.r.postings      = DictSet(@, term, c.postings_list),
                   !.r.term_doc_freq = DictSet(@, term, num_postings)]

\* num_postings is in val: postings_list = [], then the postings are read and stored
LoadTermPostings(c, f, term) ==
    IF c.exc # "none" THEN c
    ELSE StorePostings(LoadPostingsList([c EXCEPT !.postings_list = <<>>], f, c.val),
                       term, c.val)

\* the term is in val: num_postings and the postings follow
LoadTermRest(c, f) == IF c.exc # "none" THEN c ELSE LoadTermPostings(ReadU32(c, f), f, c.val)

\* for _ in range(n): a term record: term_length, term_bytes, num_postings, postings
RECURSIVE LoadTerms(_, _, _)
LoadTerms(c, f, n) ==
    IF c.exc # "none" \/ n <= 0 THEN c
    ELSE LoadTerms(LoadTermRest(ReadStr(c, f), f), f, n - 1)

\* the postings section: self.num_terms term records
LoadTermSection(c, f) == IF c.exc # "none" THEN c ELSE LoadTerms(c, f, c.r.num_terms)

\* The body of load() on the open file f.
LoadFile(r, f) ==
    LoadTermSection(
        LoadDocLengthSection(ReadU32(
            LoadKeySection(ReadU32(
                LoadHeader(LoadMagic(Cursor(r), f), f),
                f), f),
            f), f),
        f)

\* Faulty variant: a load that fails marks the Reader as not loaded.
FinishUnloading(c) ==
    IF c.exc # "none" THEN Raises([c.r EXCEPT !.loaded = FALSE], c.exc)
    ELSE Returns([c.r EXCEPT !.loaded = TRUE], <<>>)

\* self.loaded = True, once the file is read and closed
Finish(c) ==
    IF c.exc # "none" THEN Raises(c.r, c.exc)
    ELSE Returns([c.r EXCEPT !.loaded = TRUE], <<>>)

\* BM25Reader.load(filepath) on the file system fs
load(r, fs, filepath) ==
    IF filepath \notin DOMAIN fs THEN Raises(r, "FileNotFoundError")
    ELSE Finish(LoadFile(r, fs[filepath]))

\* ----------------------------------------------------------- Reader queries

\* The resolution of the model's math.log: a logarithm is held as the multiple of
\* 1/LogScale just below it, computed in fixed point with LogPrecision steps per
\* unit.
LogScale == 256
LogPrecision == 16384

\* z + z^3/3 + z^5/5 + ... in fixed point: power is z^k, sum the terms so far.
RECURSIVE AtanhSeries(_, _, _, _)
AtanhSeries(z, power, k, sum) ==
    IF power = 0 THEN sum
    ELSE AtanhSeries(z, (((power * z) \div LogPrecision) * z) \div LogPrecision, k + 2,
                     sum + (power \div k))

\* math.log(x) for x > 0: ln x = 2 atanh((x - 1) / (x + 1)).
Log(x) ==
    LET z == ((x[1] - x[2]) * LogPrecision) \div (x[1] + x[2])
    IN Rat((2 * LogScale * AtanhSeries(z, z, 1, 0)) \div LogPrecision, LogScale)

\* Faulty variant: the queries never refuse.
NotLoadedNever(r) == FALSE

\* if not self.loaded: the queries refuse
NotLoaded(r) == ~ r.loaded

\* Faulty variant: the classical form, without the + 1.0.
IdfArgumentClassic(r, df) == RDiv(<<2 * (r.num_docs - df) + 1, 2>>, <<2 * df + 1, 2>>)

\* (self.num_docs - df + 0.5) / (df + 0.5) + 1.0, the argument of the logarithm
IdfArgument(r, df) == RAdd(RDiv(<<2 * (r.num_docs - df) + 1, 2>>, <<2 * df + 1, 2>>), <<1, 1>>)

\* BM25Reader._idf(term): the outcome's ret is the IDF; math.log raises ValueError
\* on an argument that is not positive.
idf(r, term) ==
    IF term \notin DOMAIN r.term_doc_freq THEN Returns(r, <<0, 1>>)
    ELSE LET x == IdfArgument(r, r.term_doc_freq[term])
         IN IF x[1] <= 0 THEN Raises(r, "ValueError") ELSE Returns(r, Log(x))

\* Faulty variant: the search never moves to the upper half.
RECURSIVE BinarySearchLowerHalf(_, _, _, _)
BinarySearchLowerHalf(postings_list, doc_id, left, right) ==
    IF left > right THEN 0
    ELSE LET mid == (left + right) \div 2
         IN IF postings_list[mid + 1][1] = doc_id THEN postings_list[mid + 1][2]
            ELSE BinarySearchLowerHalf(postings_list, doc_id, left, mid - 1)

\* The binary search of score_document for doc_id in postings_list, between the
\* indices left and right (from 0, as in the source): the tf found, 0 if none.
RECURSIVE BinarySearch(_, _, _, _)
BinarySearch(postings_list, doc_id, left, right) ==
    IF left > right THEN 0
    ELSE LET mid == (left + right) \div 2
         IN IF postings_list[mid + 1][1] = doc_id THEN postings_list[mid + 1][2]
            ELSE IF postings_list[mid + 1][1] < doc_id
                 THEN BinarySearch(postings_list, doc_id, mid + 1, right)
                 ELSE BinarySearch(postings_list, doc_id, left, mid - 1)

\* tf + self.k1 * (1 - self.b + self.b * (doc_length / self.avgdl)), avgdl nonzero
Denominator(r, tf, doc_length) ==
    RAdd(<<tf, 1>>,
         RMul(r.k1, RAdd(RSub(<<1, 1>>, r.b), RMul(r.b, RDiv(<<doc_length, 1>>, r.avgdl)))))

\* score += idf * (numerator / denominator) for a term with tf > 0; the divisions
\* raise ZeroDivisionError on a zero divisor.
AddTermScore(acc, r, idf_value, tf, doc_length) ==
    IF r.avgdl[1] = 0 THEN [acc EXCEPT !.exc = "ZeroDivisionError"]
    ELSE LET denominator == Denominator(r, tf, doc_length)
         IN IF denominator[1] = 0 THEN [acc EXCEPT !.exc = "ZeroDivisionError"]
            ELSE [acc EXCEPT !.score =
                    RAdd(@, RMul(idf_value, RDiv(RMul(<<tf, 1>>, RAdd(r.k1, <<1, 1>>)),
                                                 denominator)))]

\* The body of the loop over the query terms, for a term that is in self.postings:
\* the IDF first, then the tf, then the contribution if tf > 0.
ScoreTerm(acc, r, term, doc_id, doc_length) ==
    LET i  == idf(r, term)
        tf == BinarySearch(r.postings[term], doc_id, 0, Len(r.postings[term]) - 1)
    IN IF i.exc # "none" THEN [acc EXCEPT !.exc = i.exc]
       ELSE IF tf > 0 THEN AddTermScore(acc, r, i.ret, tf, doc_length)
       ELSE acc

\* for term in query_terms: terms that are not in self.postings are skipped
RECURSIVE ScoreTerms(_, _, _, _, _)
ScoreTerms(acc, r, query_terms, doc_id, doc_length) ==
    IF acc.exc # "none" \/ query_terms = <<>> THEN acc
    ELSE ScoreTerms(IF Head(query_terms) \in DOMAIN r.postings
                    THEN ScoreTerm(acc, r, Head(query_terms), doc_id, doc_length)
                    ELSE acc,
                    r, Tail(query_terms), doc_id, doc_length)

\* The outcome of the scoring loop: the score returned, or the exception.
ScoreOutcome(r, acc) == IF acc.exc # "none" THEN Raises(r, acc.exc) ELSE Returns(r, acc.score)

\* if doc_id not in self.doc_lengths: score_document returns 0.0
UnknownDoc(r, doc_id) == doc_id \notin DOMAIN r.doc_lengths

\* Faulty variant: a doc_id outside the length table raises KeyError.
score_documentStrict(r, query, doc_id) ==
    IF NotLoaded(r) THEN Raises(r, "RuntimeError")
    ELSE IF UnknownDoc(r, doc_id) THEN Raises(r, "KeyError")
    ELSE ScoreOutcome(r, ScoreTerms([exc |-> "none", score |-> <<0, 1>>], r, tokenize(query),
                                    doc_id, r.doc_lengths[doc_id]))

\* BM25Reader.score_document(query, doc_id)
score_document(r, query, doc_id) ==
    IF NotLoaded(r) THEN Raises(r, "RuntimeError")
    ELSE IF UnknownDoc(r, doc_id) THEN Returns(r, <<0, 1>>)
    ELSE ScoreOutcome(r, ScoreTerms([exc |-> "none", score |-> <<0, 1>>], r, tokenize(query),
                                    doc_id, r.doc_lengths[doc_id]))

\* Faulty variant: only the first query term is looked up.
CandidateDocsFirstTerm(r, query_terms) ==
    IF query_terms = <<>> \/ Head(query_terms) \notin DOMAIN r.postings THEN {}
    ELSE {r.postings[Head(query_terms)][j][1] : j \in 1..Len(r.postings[Head(query_terms)])}

\* The candidate documents of search: the doc IDs of the posting lists of the
\* query terms that are in self.postings.
CandidateDocs(r, query_terms) ==
    UNION {{r.postings[query_terms[i]][j][1] : j \in 1..Len(r.postings[query_terms[i]])} :
             i \in {k \in 1..Len(query_terms) : query_terms[k] \in DOMAIN r.postings}}

\* scores.sort(key=lambda x: x[1], reverse=True), a stable sort: the entry goes
\* after every entry whose score is not lower.
RECURSIVE InsertByScore(_, _)
InsertByScore(entry, scores) ==
    IF scores = <<>> THEN <<entry>>
    ELSE IF RLess(Head(scores)[2], entry[2]) THEN <<entry>> \o scores
    ELSE <<Head(scores)>> \o InsertByScore(entry, Tail(scores))

\* Faulty variant: the list is left in the order the candidates were scored.
SortByScoreSkipped(scores, out) == out \o scores

RECURSIVE SortByScore(_, _)
SortByScore(scores, out) ==
    IF scores = <<>> THEN out ELSE SortByScore(Tail(scores), InsertByScore(Head(scores), out))

\* The loop of search over the candidates docs (a set of small ints, which
\* CPython iterates in ascending order): acc holds the list scores and the
\* exception raised so far; self.id_to_key[doc_id] raises KeyError when absent.
RECURSIVE ScoreCandidates(_, _, _, _)
ScoreCandidates(acc, r, query, docs) ==
    IF acc.exc # "none" \/ docs = <<>> THEN acc
    ELSE LET o == score_document(r, query, Head(docs))
         IN ScoreCandidates(
                IF o.exc # "none" THEN [acc EXCEPT !.exc = o.exc]
                ELSE IF ~ RLess(<<0, 1>>, o.ret) THEN acc
                ELSE IF Head(docs) \notin DOMAIN r.id_to_key THEN [acc EXCEPT !.exc = "KeyError"]
                ELSE [acc EXCEPT !.scores = Append(@, <<r.id_to_key[Head(docs)], o.ret>>)],
                r, query, Tail(docs))

\* Faulty variant: scores[:abs(top_k)].
SliceAbs(scores, top_k) == SubSeq(scores, 1, Min(Abs(top_k), Len(scores)))

\* scores[:top_k]: the first top_k entries, and for a negative top_k all but the
\* last -top_k entries.
Slice(scores, top_k) ==
    IF top_k >= 0 THEN SubSeq(scores, 1, Min(top_k, Len(scores)))
    ELSE SubSeq(scores, 1, Len(scores) + top_k)

\* The outcome of search once the candidates are scored.
SearchOutcome(r, acc, top_k) ==
    IF acc.exc # "none" THEN Raises(r, acc.exc)
    ELSE Returns(r, Slice(SortByScore(acc.scores, <<>>), top_k))

\* Faulty variant: looking a query term up leaves an empty posting list behind
\* for each term the index does not have, as a defaultdict would.
searchInserting(r, query, top_k) ==
    IF NotLoaded(r) THEN Raises(r, "RuntimeError")
    ELSE SearchOutcome([r EXCEPT !.postings =
                            [t \in DOMAIN r.postings
                                    \cup {tokenize(query)[i] : i \in 1..Len(tokenize(query))} |->
                                IF t \in DOMAIN r.postings THEN r.postings[t] ELSE <<>>]],
                       ScoreCandidates([exc |-> "none", scores |-> <<>>], r, query,
                                       SortedInts(CandidateDocs(r, tokenize(query)))),
                       top_k)

\* BM25Reader.search(query, top_k)
search(r, query, top_k) ==
    IF NotLoaded(r) THEN Raises(r, "RuntimeError")
    ELSE SearchOutcome(r, ScoreCandidates([exc |-> "none", scores |-> <<>>], r, query,
                                          SortedInts(CandidateDocs(r, tokenize(query)))),
                       top_k)

\* sum(len(p) for p in postings.values())
RECURSIVE TotalPostings(_, _)
TotalPostings(postings, terms) ==
    IF terms = {} THEN 0
    ELSE Len(postings[CHOOSE t \in terms : TRUE])
         + TotalPostings(postings, terms \ {CHOOSE t \in terms : TRUE})

\* The dict get_stats returns.
Stats(num_documents, num_unique_terms, average_document_length, k1, b, postings) ==
    [ num_documents           |-> num_documents,
      num_unique_terms        |-> num_unique_terms,
      average_document_length |-> average_document_length,
      k1                      |-> k1,
      b                       |-> b,
      total_postings          |-> TotalPostings(postings, DOMAIN postings) ]

\* BM25Reader.get_stats()
reader_get_stats(r) ==
    IF NotLoaded(r) THEN Raises(r, "RuntimeError")
    ELSE Returns(r, Stats(r.num_docs, r.num_terms, r.avgdl, r.k1, r.b, r.postings))

\* BM25Builder.get_stats()
builder_get_stats(b) ==
    IF ~ b.built THEN Raises(b, "RuntimeError")
    ELSE Returns(b, Stats(b.num_docs, Cardinality(DOMAIN b.postings), b.avgdl, b.k1, b.b,
                          b.postings))

\* ------------------------------------------------------------------ inputs

\* The Builder after the add_tokenized calls of h on b.
RECURSIVE Replay(_, _)
Replay(b, h) ==
    IF h = <<>> THEN b
    ELSE Replay(add_tokenized(b, Head(h).key, Head(h).tokens).st, Tail(h))

IntKey(n) == [kind |-> "int", int |-> n, str |-> <<>>]
StrKey(s) == [kind |-> "str", int |-> 0, str |-> s]

\* The keys callers pass: the int 10 and the str "e-acute" (U+00E9).
Keys == {IntKey(10), StrKey(<<233>>)}

\* The token lists callers pass to add_tokenized: [], ["a"] and
\* ["B", e-acute, "B", ""].
TokenLists == {<<>>, <<<<97>>>>, <<<<66>>, <<233>>, <<66>>, <<>>>>}

\* The texts callers pass to add: " A\n", which tokenizes to ["a"].
Texts == {<<32, 65, 10>>}

\* The (k1, b) a Builder is constructed with: the defaults 1.5 and 0.75, and
\* 1.2 and 0.5.
Params == {[k1 |-> <<3, 2>>, b |-> <<3, 4>>], [k1 |-> <<6, 5>>, b |-> <<1, 2>>]}

\* The paths callers save to and load from.
Paths == {"index.bm25"}

\* ------------------------------------------------------------------ system

Init ==
    /\ \E pr \in Params : bld = BuilderInit(pr.k1, pr.b)
    /\ rdr = ReaderInit
    /\ files = EmptyMap
    /\ history = <<>>
    /\ result = [op |-> "init", exc |-> "none"]

\* history records the (key, tokens) of every add/add_tokenized call that returned.
Logged(o, key, tokens) ==
    IF o.exc = "none" THEN Append(history, [key |-> key, tokens |-> tokens]) ELSE history

AddTokenizedCall ==
    \E key \in Keys, tokens \in TokenLists :
        LET o == add_tokenized(bld, key, tokens)
        IN /\ bld.built \/ Len(history) < MaxAdds
           /\ bld' = o.st
           /\ history' = Logged(o, key, tokens)
           /\ result' = [op |-> "add_tokenized", exc |-> o.exc]
           /\ UNCHANGED <<rdr, files>>

AddCall ==
    \E key \in Keys, content \in Texts :
        LET o == add(bld, key, content)
        IN /\ bld.built \/ Len(history) < MaxAdds
           /\ bld' = o.st
           /\ history' = Logged(o, key, tokenize(content))
           /\ result' = [op |-> "add", exc |-> o.exc]
           /\ UNCHANGED <<rdr, files>>

BuildCall ==
    LET o == build(bld)
    IN /\ bld' = o.st
       /\ result' = [op |-> "build", exc |-> o.exc]
       /\ UNCHANGED <<rdr, files, history>>

SaveCall ==
    \E filepath \in Paths :
        LET o == save(bld, files, filepath)
        IN /\ files' = o.st
           /\ result' = [op |-> "save", exc |-> o.exc]
           /\ UNCHANGED <<bld, rdr, history>>

LoadCall ==
    \E filepath \in Paths :
        LET o == load(rdr, files, filepath)
        IN /\ rdr' = o.st
           /\ result' = [op |-> "load", exc |-> o.exc]
           /\ UNCHANGED <<bld, files, history>>

Next == AddTokenizedCall \/ AddCall \/ BuildCall \/ SaveCall \/ LoadCall

Spec == Init /\ [][Next]_vars

\* ----------------------------------------------------------------- queries

\* The corpora the query runs start from: the (k1, b) of the Builder and the
\* add_tokenized calls made on it.  Their k1, b and avgdl are binary32 values.
\*   three documents of lengths 2, 3, 1 with the terms "a", "b", "c";
\*   four calls, the key "x" used twice, and a term "B" in upper case;
\*   two documents with the same tokens (equal scores);
\*   one document without tokens (avgdl = 0.0, no terms);
\*   no document at all (build refuses, nothing is ever saved).
Corpora ==
    { [k1 |-> <<3, 2>>, b |-> <<3, 4>>,
       docs |-> << [key |-> IntKey(1), tokens |-> <<<<97>>, <<98>>>>],
                   [key |-> IntKey(2), tokens |-> <<<<97>>, <<97>>, <<99>>>>],
                   [key |-> IntKey(3), tokens |-> <<<<98>>>>] >>],
      [k1 |-> <<2, 1>>, b |-> <<1, 2>>,
       docs |-> << [key |-> StrKey(<<120>>), tokens |-> <<<<97>>>>],
                   [key |-> StrKey(<<120>>), tokens |-> <<<<97>>, <<98>>>>],
                   [key |-> StrKey(<<121>>), tokens |-> <<<<98>>, <<98>>>>],
                   [key |-> IntKey(7), tokens |-> <<<<66>>>>] >>],
      [k1 |-> <<3, 2>>, b |-> <<3, 4>>,
       docs |-> << [key |-> IntKey(1), tokens |-> <<<<97>>>>],
                   [key |-> IntKey(2), tokens |-> <<<<97>>>>] >>],
      [k1 |-> <<3, 2>>, b |-> <<3, 4>>,
       docs |-> << [key |-> IntKey(10), tokens |-> <<>>] >>],
      [k1 |-> <<3, 2>>, b |-> <<3, 4>>, docs |-> <<>>] }

\* The queries callers pass: "", "a", "A b", "b b", "z" and "c a".
Queries == {<<>>, <<97>>, <<65, 32, 98>>, <<98, 32, 98>>, <<122>>, <<99, 32, 97>>}

\* The top_k callers pass: -MaxTopK .. MaxTopK.
MaxTopK == 3
TopKs == (0 - MaxTopK)..MaxTopK

\* The doc_id callers pass to score_document: -1 .. MaxDocId.
MaxDocId == 3
DocIdArgs == (0 - 1)..MaxDocId

\* A Builder to which the documents of a corpus were added, and a new Reader.
QueryInit ==
    /\ \E c \in Corpora :
          /\ bld = Replay(BuilderInit(c.k1, c.b), c.docs)
          /\ history = c.docs
    /\ rdr = ReaderInit
    /\ files = EmptyMap
    /\ result = [op |-> "init", exc |-> "none"]

BuilderGetStatsCall ==
    LET o == builder_get_stats(bld)
    IN /\ bld' = o.st
       /\ result' = [op |-> "Builder.get_stats", exc |-> o.exc, ret |-> o.ret]
       /\ UNCHANGED <<rdr, files, history>>

ReaderGetStatsCall ==
    LET o == reader_get_stats(rdr)
    IN /\ rdr' = o.st
       /\ result' = [op |-> "Reader.get_stats", exc |-> o.exc, ret |-> o.ret]
       /\ UNCHANGED <<bld, files, history>>

\* result keeps the arguments of a query with its outcome.
ScoreDocumentCall ==
    \E query \in Queries, doc_id \in DocIdArgs :
        LET o == score_document(rdr, query, doc_id)
        IN /\ rdr' = o.st
           /\ result' = [op |-> "score_document", exc |-> o.exc, ret |-> o.ret,
                         query |-> query, doc_id |-> doc_id]
           /\ UNCHANGED <<bld, files, history>>

SearchCall ==
    \E query \in Queries, top_k \in TopKs :
        LET o == search(rdr, query, top_k)
        IN /\ rdr' = o.st
           /\ result' = [op |-> "search", exc |-> o.exc, ret |-> o.ret,
                         query |-> query, top_k |-> top_k]
           /\ UNCHANGED <<bld, files, history>>

QueryNext ==
    \/ BuildCall \/ SaveCall \/ LoadCall
    \/ BuilderGetStatsCall \/ ReaderGetStatsCall \/ ScoreDocumentCall \/ SearchCall

QuerySpec == QueryInit /\ [][QueryNext]_vars

\* ------------------------------------------------------- files given to load

\* The corpora whose saved file is then damaged: one document without tokens,
\* and two documents, one of them under the key "e-acute", with k1 = 1.2.
FileCorpora ==
    { [k1 |-> <<3, 2>>, b |-> <<3, 4>>,
       docs |-> << [key |-> IntKey(10), tokens |-> <<>>] >>],
      [k1 |-> <<6, 5>>, b |-> <<1, 2>>,
       docs |-> << [key |-> IntKey(10), tokens |-> <<<<97>>>>],
                   [key |-> StrKey(<<233>>), tokens |-> <<<<97>>, <<233>>>>] >>] }

\* The values a damaged file has in place of the magic number and of the version.
BadMagics == {0, MAGIC + 1}
BadVersions == {0, VERSION + 1}

\* A Builder that has the documents of an index, not built yet, no file, and a
\* new Reader.
LoadInit ==
    /\ \E c \in FileCorpora :
          /\ bld = Replay(BuilderInit(c.k1, c.b), c.docs)
          /\ history = c.docs
    /\ files = EmptyMap
    /\ rdr = ReaderInit
    /\ result = [op |-> "init", exc |-> "none"]

\* add and add_tokenized called on the built Builder (the documents of the
\* index are those LoadInit gave it).
AddAfterBuild == bld.built /\ (AddTokenizedCall \/ AddCall)

\* The saved file at filepath is cut to a strict prefix of itself.
TruncateFile ==
    \E filepath \in DOMAIN files :
        /\ files[filepath] = SaveBytes(bld)
        /\ \E n \in 0..(Len(files[filepath]) - 1) :
              files' = DictSet(files, filepath, SubSeq(files[filepath], 1, n))
        /\ result' = [op |-> "write", exc |-> "none"]
        /\ UNCHANGED <<bld, rdr, history>>

\* The saved file at filepath gets another magic number.
BadMagicFile ==
    \E filepath \in DOMAIN files :
        /\ files[filepath] = SaveBytes(bld)
        /\ \E magic \in BadMagics :
              files' = DictSet(files, filepath,
                               PackU32(magic) \o SubSeq(files[filepath], 5, Len(files[filepath])))
        /\ result' = [op |-> "write", exc |-> "none"]
        /\ UNCHANGED <<bld, rdr, history>>

\* The saved file at filepath gets another version.
BadVersionFile ==
    \E filepath \in DOMAIN files :
        /\ files[filepath] = SaveBytes(bld)
        /\ \E version \in BadVersions :
              files' = DictSet(files, filepath,
                               PackU32(MAGIC) \o PackU32(version)
                               \o SubSeq(files[filepath], 9, Len(files[filepath])))
        /\ result' = [op |-> "write", exc |-> "none"]
        /\ UNCHANGED <<bld, rdr, history>>

\* The bytes save() writes for the built index of the documents of corpus c.
IndexFile(c) == SaveBytes(build(Replay(BuilderInit(c.k1, c.b), c.docs)).st)

\* The indices other Builders have: each set of documents that can be built.
OtherCorpora == FileCorpora \cup {c \in Corpora : c.docs # <<>>}

\* Another Builder saves its index at filepath.
OtherIndexFile ==
    \E filepath \in DOMAIN files, c \in OtherCorpora :
        /\ files' = DictSet(files, filepath, IndexFile(c))
        /\ result' = [op |-> "write", exc |-> "none"]
        /\ UNCHANGED <<bld, rdr, history>>

LoadNext ==
    \/ AddAfterBuild \/ BuildCall \/ SaveCall \/ LoadCall
    \/ TruncateFile \/ BadMagicFile \/ BadVersionFile

LoadSpec == LoadInit /\ [][LoadNext]_vars

\* --------------------------------------------- one Reader, several indices
\* The Reader loads the file again after another Builder has replaced it.
ReloadNext == BuildCall \/ SaveCall \/ LoadCall \/ OtherIndexFile

ReloadSpec == LoadInit /\ [][ReloadNext]_vars

\* ------------------------------------------ the lookup loop, step by step
\* The largest doc ID and the largest frequency of the posting lists looked up.
MaxPostingId == 3
MaxFreq == 2

\* Posting lists as build() makes them: (doc_id, freq) pairs, doc IDs strictly
\* ascending, frequencies positive; the empty list and one-entry lists included.
PostingLists ==
    { l \in UNION { [1..n -> (0..MaxPostingId) \X (1..MaxFreq)] : n \in 0..(MaxPostingId + 1) } :
        \A i \in 1..(Len(l) - 1) : l[i][1] < l[i + 1][1] }

\* The doc IDs looked up: those of the lists, one below and one above.
LookupIds == (0 - 1)..(MaxPostingId + 1)

\* tf = 0; left, right = 0, len(postings_list) - 1: the lookup is at its while.
LookupInit ==
    /\ bld = BuilderInit(<<3, 2>>, <<3, 4>>)
    /\ rdr = ReaderInit
    /\ files = EmptyMap
    /\ history = <<>>
    /\ \E postings_list \in PostingLists, doc_id \in LookupIds :
          result = [op |-> "lookup", exc |-> "none",
                    postings_list |-> postings_list, doc_id |-> doc_id,
                    left |-> 0, right |-> Len(postings_list) - 1, tf |-> 0, pc |-> "while"]

\* One pass of the loop body: the entry at mid is the one (tf is set, break),
\* below doc_id (left moves up) or above it (right moves down).
LookupStep ==
    /\ result.pc = "while" /\ result.left <= result.right
    /\ LET mid        == (result.left + result.right) \div 2
           mid_doc_id == result.postings_list[mid + 1][1]
       IN result' = IF mid_doc_id = result.doc_id
                    THEN [result EXCEPT !.tf = result.postings_list[mid + 1][2], !.pc = "done"]
                    ELSE IF mid_doc_id < result.doc_id
                    THEN [result EXCEPT !.left = mid + 1]
                    ELSE [result EXCEPT !.right = mid - 1]
    /\ UNCHANGED <<bld, rdr, files, history>>

\* The loop condition left <= right is false: the loop ends with tf as it is.
LookupExit ==
    /\ result.pc = "while" /\ result.left > result.right
    /\ result' = [result EXCEPT !.pc = "done"]
    /\ UNCHANGED <<bld, rdr, files, history>>

LookupNext == LookupStep \/ LookupExit

LookupSpec == LookupInit /\ [][LookupNext]_vars

\* ------------------------------------------------------------ history views

\* The distinct keys of the calls in h.
KeysOf(h) == {h[i].key : i \in 1..Len(h)}

\* The distinct tokens of the calls in h.
TermsOf(h) == UNION {{h[i].tokens[j] : j \in 1..Len(h[i].tokens)} : i \in 1..Len(h)}

\* The call that first used key.
FirstCall(h, key) == CHOOSE i \in 1..Len(h) : h[i].key = key /\ \A j \in 1..(i - 1) : h[j].key # key

\* The number of distinct keys seen before key was first used.
Rank(h, key) == Cardinality({h[j].key : j \in 1..(FirstCall(h, key) - 1)})

\* The sum of len(tokens) over the calls in h.
RECURSIVE SumLens(_)
SumLens(h) == IF h = <<>> THEN 0 ELSE Len(Head(h).tokens) + SumLens(Tail(h))

\* The number of occurrences of term in tokens.
Count(term, tokens) == Cardinality({j \in 1..Len(tokens) : tokens[j] = term})

\* The total number of occurrences of term in the calls of h whose key has ID d.
RECURSIVE Occurrences(_, _, _, _)
Occurrences(h, ids, term, d) ==
    IF h = <<>> THEN 0
    ELSE (IF ids[Head(h).key] = d THEN Count(term, Head(h).tokens) ELSE 0)
         + Occurrences(Tail(h), ids, term, d)

AddOps == {"add", "add_tokenized"}

\* ------------------------------------------------------------------ claims

\* C1: once build() has succeeded, every later add, add_tokenized or build call
\* raises RuntimeError and leaves every Builder attribute as it was.
C1_PostFinalizationImmutable ==
    [][(bld.built /\ result'.op \in AddOps \cup {"build"})
         => (result'.exc = "RuntimeError" /\ bld' = bld)]_vars

\* A built Builder on which add has just been refused.
C1_Witness == bld.built /\ result.op = "add" /\ result.exc = "RuntimeError"

\* C2: build() on a Builder to which nothing was ever added raises ValueError and
\* leaves the Builder as it was, still open: any add_tokenized then returns and a
\* build() after it returns with built set.
C2_EmptyBuildRejected ==
    [][(history = <<>> /\ result'.op = "build")
         => /\ result'.exc = "ValueError"
            /\ bld' = bld
            /\ ~ bld'.built
            /\ \A key \in Keys, tokens \in TokenLists :
                  /\ add_tokenized(bld', key, tokens).exc = "none"
                  /\ build(add_tokenized(bld', key, tokens).st).exc = "none"
                  /\ build(add_tokenized(bld', key, tokens).st).st.built]_vars

\* An empty Builder on which build has just been refused.
C2_Witness == history = <<>> /\ result.op = "build" /\ result.exc = "ValueError"

\* C3: an add or add_tokenized call that returns leaves the ID of every key seen
\* before as it was (a key added again keeps its first ID); after it key_to_id and
\* id_to_key have one entry per distinct key added and num_docs is the number of
\* calls made, calls that reuse a key included.
C3_KeyDedup ==
    [][(result'.op \in AddOps /\ result'.exc = "none")
         => /\ \A k \in DOMAIN bld.key_to_id :
                  k \in DOMAIN bld'.key_to_id /\ bld'.key_to_id[k] = bld.key_to_id[k]
            /\ Cardinality(DOMAIN bld'.key_to_id) = Cardinality(KeysOf(history'))
            /\ Cardinality(DOMAIN bld'.id_to_key) = Cardinality(KeysOf(history'))
            /\ bld'.num_docs = Len(history')]_vars

\* Three calls on an open Builder, two of them under one key.
C3_Witness ==
    /\ ~ bld.built /\ Len(history) = 3 /\ Cardinality(KeysOf(history)) = 2
    /\ history[1].key = history[3].key
    /\ result.op \in AddOps

\* C4 (as claimed): the doc-length table has one entry per add/add_tokenized call
\* made, i.e. as many entries as num_docs counts, also when a key is reused.
C4_DocLengthsPerCall ==
    /\ Cardinality(DOMAIN bld.doc_lengths) = Len(history)
    /\ Cardinality(DOMAIN bld.doc_lengths) = bld.num_docs

\* key_to_id and id_to_key are inverse bijections between the distinct keys added
\* so far and 0..next_doc_id-1, and the N-th distinct key has ID N-1.
C5_IdsInverse ==
    /\ DOMAIN bld.key_to_id = KeysOf(history)
    /\ DOMAIN bld.id_to_key = 0..(bld.next_doc_id - 1)
    /\ \A k \in DOMAIN bld.key_to_id :
          /\ bld.key_to_id[k] \in DOMAIN bld.id_to_key
          /\ bld.id_to_key[bld.key_to_id[k]] = k
          /\ bld.key_to_id[k] = Rank(history, k)
    /\ \A d \in DOMAIN bld.id_to_key :
          /\ bld.id_to_key[d] \in DOMAIN bld.key_to_id
          /\ bld.key_to_id[bld.id_to_key[d]] = d

\* A step keeps every entry of key_to_id and of id_to_key.
C5_IdsStable ==
    /\ \A k \in DOMAIN bld.key_to_id :
          k \in DOMAIN bld'.key_to_id /\ bld'.key_to_id[k] = bld.key_to_id[k]
    /\ \A d \in DOMAIN bld.id_to_key :
          d \in DOMAIN bld'.id_to_key /\ bld'.id_to_key[d] = bld.id_to_key[d]

\* C5: in every reachable state key_to_id and id_to_key are inverse bijections
\* between the distinct keys added so far and 0..next_doc_id-1, the N-th distinct
\* key has ID N-1, and no step changes or reassigns an ID once given.
C5_MonotonicIds == [] C5_IdsInverse /\ [][C5_IdsStable]_vars

\* Two distinct keys registered, the first of them added again afterwards.
C5_Witness ==
    /\ bld.next_doc_id = 2 /\ Len(history) = 3
    /\ history[1].key # history[2].key /\ history[3].key = history[1].key

\* C6: after a successful build(), avgdl is the mean of the token counts of all
\* calls: total_length is the sum of len(tokens) over every call, num_docs the
\* number of calls, and avgdl * num_docs = total_length.
C6_AverageLength ==
    bld.built =>
        /\ bld.total_length = SumLens(history)
        /\ bld.num_docs = Len(history)
        /\ bld.avgdl[1] * Len(history) = SumLens(history) * bld.avgdl[2]

\* Built from calls of lengths 0 and 1 under one key: avgdl is 0.5.
C6_Witness ==
    /\ bld.built /\ Len(history) = 2 /\ history[1].key = history[2].key
    /\ Len(history[1].tokens) = 0 /\ Len(history[2].tokens) = 1
    /\ bld.avgdl = <<1, 2>>

\* The entries of postings_list for doc ID d.
EntriesFor(postings_list, d) == {i \in 1..Len(postings_list) : postings_list[i][1] = d}

\* The doc IDs in use: those of the key table and those named in a posting list.
DocIds(b) ==
    {b.key_to_id[k] : k \in DOMAIN b.key_to_id}
    \cup UNION {{b.postings[t][i][1] : i \in 1..Len(b.postings[t])} : t \in DOMAIN b.postings}

\* C7: after build() the terms of postings are exactly the distinct tokens ever
\* added, as given (case kept); for every term t and doc ID d, postings[t] holds
\* exactly one entry (d, f) when t occurred f >= 1 times in all in the calls whose
\* key maps to d, and no entry for d otherwise.
C7_TermFrequencies ==
    bld.built =>
        /\ DOMAIN bld.postings = TermsOf(history)
        /\ \A t \in DOMAIN bld.postings : \A d \in DocIds(bld) :
              LET f == Occurrences(history, bld.key_to_id, t, d)
                  e == EntriesFor(bld.postings[t], d)
              IN IF f >= 1
                 THEN Cardinality(e) = 1 /\ \A i \in e : bld.postings[t][i][2] = f
                 ELSE e = {}

\* Built with "B" (upper case kept) counted four times for one doc ID: twice in
\* each of two calls under one key.
C7_Witness ==
    /\ bld.built /\ <<66>> \in DOMAIN bld.postings
    /\ \E i \in 1..Len(bld.postings[<<66>>]) : bld.postings[<<66>>][i][2] = 4

\* C8: after build() every posting list is strictly ascending in doc_id, every
\* frequency is at least 1, and term_doc_freq[t] is the length of postings[t],
\* the number of distinct doc IDs whose calls contain t.
C8_PostingsSorted ==
    bld.built =>
        /\ DOMAIN bld.term_doc_freq = DOMAIN bld.postings
        /\ \A t \in DOMAIN bld.postings :
              LET pl == bld.postings[t]
              IN /\ \A i \in 1..(Len(pl) - 1) : pl[i][1] < pl[i + 1][1]
                 /\ \A i \in 1..Len(pl) : pl[i][2] >= 1
                 /\ bld.term_doc_freq[t] = Len(pl)
                 /\ Len(pl) = Cardinality({bld.key_to_id[history[i].key] :
                                i \in {j \in 1..Len(history) : Count(t, history[j].tokens) > 0}})

\* Built after a term reached doc ID 1 before doc ID 0: the insertion order of
\* its temporary postings was (1, .), (0, .).
C8_Witness ==
    /\ bld.built /\ Len(history) = 3
    /\ history[1].key # history[2].key /\ history[3].key = history[1].key
    /\ \E t \in TermsOf(history) :
          /\ Count(t, history[1].tokens) = 0
          /\ Count(t, history[2].tokens) > 0
          /\ Count(t, history[3].tokens) > 0

\* A load() that has just returned on a Reader that was as constructed; every
\* file is one that save() wrote.
FreshLoad == rdr = ReaderInit /\ result'.op = "load" /\ result'.exc = "none"

\* C9 (as claimed): after build(), save(p) and load(p) on a fresh Reader, the
\* Reader's k1, b, avgdl and num_docs are identical to the Builder's.
C9_HeaderIdentical ==
    [][FreshLoad => /\ rdr'.k1 = bld.k1
                    /\ rdr'.b = bld.b
                    /\ rdr'.avgdl = bld.avgdl
                    /\ rdr'.num_docs = bld.num_docs]_vars

RECURSIVE IsPow2(_)
IsPow2(n) == n = 1 \/ (n > 1 /\ n % 2 = 0 /\ IsPow2(n \div 2))

RECURSIVE OddPart(_)
OddPart(n) == IF n > 0 /\ n % 2 = 0 THEN OddPart(n \div 2) ELSE n

\* x is a binary32 value: a dyadic rational with a significand of at most 24 bits.
IsBinary32(x) == IsPow2(x[2]) /\ OddPart(x[1]) < 16777216

\* y is a binary32 value nearest to x: y = m * 2^(e-23) with 2^23 <= m <= 2^24 and
\* at most half a unit in the last place from x, where 2^e <= x < 2^(e+1).
Nearest32(x, y) ==
    IF x[1] = 0 THEN y = <<0, 1>>
    ELSE LET s == Pow2(23 - Exponent(x[1], x[2]))
             m == y[1] * (s \div y[2])
         IN /\ s % y[2] = 0
            /\ m >= 8388608 /\ m <= 16777216
            /\ 2 * Abs(m * x[2] - x[1] * s) <= x[2]

\* x comes back from the file as the binary32 value nearest to it: unchanged
\* exactly when x is a binary32 value itself.
RoundedTo32(x, y) == Nearest32(x, y) /\ IsBinary32(y) /\ (y = x <=> IsBinary32(x))

\* C9 (amended): after build(), save(p) and load(p) on a fresh Reader, the
\* Reader's num_docs is identical to the Builder's, and its k1, b and avgdl are
\* the Builder's values rounded to the nearest binary32 value: identical to the
\* Builder's exactly when the Builder's value is representable in binary32.
C9_HeaderRounded ==
    [][FreshLoad => /\ RoundedTo32(bld.k1, rdr'.k1)
                    /\ RoundedTo32(bld.b, rdr'.b)
                    /\ RoundedTo32(bld.avgdl, rdr'.avgdl)
                    /\ rdr'.num_docs = bld.num_docs]_vars

\* A Reader loaded from a Builder with k1 = 1.2 and avgdl a multiple of 1/3:
\* neither comes back as it was.
C9_Witness ==
    /\ rdr.loaded /\ result.op = "load" /\ result.exc = "none"
    /\ bld.k1 = <<6, 5>> /\ rdr.k1 # bld.k1
    /\ bld.avgdl[2] = 3 /\ rdr.avgdl # bld.avgdl

\* The distinct keys of h in the order they were first used.
RECURSIVE DistinctKeys(_, _)
DistinctKeys(h, seen) ==
    IF h = <<>> THEN seen
    ELSE DistinctKeys(Tail(h), IF \E i \in 1..Len(seen) : seen[i] = Head(h).key
                               THEN seen ELSE Append(seen, Head(h).key))

\* C10: after save(p) of a built Builder and load(p) on a fresh Reader, the
\* Reader's doc_lengths, postings and term_doc_freq equal the Builder's, its
\* num_terms is the number of Builder posting lists, and its id_to_key maps every
\* doc ID to str() of the key the caller supplied for it.
C10_TablesRoundTrip ==
    [][FreshLoad => /\ rdr'.doc_lengths = bld.doc_lengths
                    /\ rdr'.postings = bld.postings
                    /\ rdr'.term_doc_freq = bld.term_doc_freq
                    /\ rdr'.num_terms = Cardinality(DOMAIN bld.postings)
                    /\ DOMAIN rdr'.id_to_key = DOMAIN bld.id_to_key
                    /\ \A d \in DOMAIN bld.id_to_key :
                          /\ rdr'.id_to_key[d] = Str(bld.id_to_key[d])
                          /\ rdr'.id_to_key[d] = Str(DistinctKeys(history, <<>>)[d + 1])]_vars

\* A Reader loaded from an index with an int key, a non-ASCII str key, the empty
\* term and a posting list of two entries.
C10_Witness ==
    /\ rdr.loaded /\ result.op = "load" /\ result.exc = "none"
    /\ KeysOf(history) = Keys
    /\ <<>> \in DOMAIN rdr.postings
    /\ \E t \in DOMAIN rdr.postings : Len(rdr.postings[t]) = 2

\* The file a second Builder writes to filepath on an empty file system, when it
\* is constructed with (k1, b), fed the calls of h, built and saved.
SecondFile(k1, b, h, filepath) ==
    save(build(Replay(BuilderInit(k1, b), h)).st, EmptyMap, filepath).st[filepath]

U32At(f, pos) == UnpackU32(SubSeq(f, pos + 1, pos + 4))

\* The doc IDs of n key-mapping records starting at offset pos, and the offset
\* after them.
RECURSIVE KeyRecordsAt(_, _, _, _)
KeyRecordsAt(f, pos, n, ids) ==
    IF n = 0 THEN [ids |-> ids, pos |-> pos]
    ELSE KeyRecordsAt(f, pos + 8 + U32At(f, pos + 4), n - 1, Append(ids, U32At(f, pos)))

\* The doc IDs of n doc-length records starting at offset pos, and the offset
\* after them.
RECURSIVE LengthRecordsAt(_, _, _, _)
LengthRecordsAt(f, pos, n, ids) ==
    IF n = 0 THEN [ids |-> ids, pos |-> pos]
    ELSE LengthRecordsAt(f, pos + 8, n - 1, Append(ids, U32At(f, pos)))

\* The term records from offset pos to the end of the file: each one's term and
\* the doc IDs of its postings.
RECURSIVE TermRecordsAt(_, _, _)
TermRecordsAt(f, pos, out) ==
    IF pos >= Len(f) THEN out
    ELSE TermRecordsAt(f, pos + 8 + U32At(f, pos) + 8 * U32At(f, pos + 4 + U32At(f, pos)),
            Append(out,
                [term |-> DecodeUtf8(SubSeq(f, pos + 5, pos + 4 + U32At(f, pos)), <<>>).str,
                 ids  |-> [i \in 1..U32At(f, pos + 4 + U32At(f, pos)) |->
                             U32At(f, pos + U32At(f, pos) + 8 * i)]]))

Ascending(s) == \A i \in 1..(Len(s) - 1) : s[i] < s[i + 1]

\* The key-mapping section of f (its count is at offset 28), the doc-length
\* section after it and the term records after that.
KeySection(f) == KeyRecordsAt(f, 32, U32At(f, 28), <<>>)
LengthSection(f) == LengthRecordsAt(f, KeySection(f).pos + 4, U32At(f, KeySection(f).pos), <<>>)
TermSection(f) == TermRecordsAt(f, LengthSection(f).pos, <<>>)

\* The layout of one file written by the Builder b.
LayoutOrdered(f, b) ==
    /\ Ascending(KeySection(f).ids)
    /\ Len(KeySection(f).ids) = Cardinality(DOMAIN b.id_to_key)
    /\ Ascending(LengthSection(f).ids)
    /\ Len(LengthSection(f).ids) = Cardinality(DOMAIN b.doc_lengths)
    /\ \A i \in 1..(Len(TermSection(f)) - 1) :
          StrLess(TermSection(f)[i].term, TermSection(f)[i + 1].term)
    /\ \A i \in 1..Len(TermSection(f)) : Ascending(TermSection(f)[i].ids)
    /\ U32At(f, 24) = Len(TermSection(f))
    /\ {TermSection(f)[i].term : i \in 1..Len(TermSection(f))} = DOMAIN b.postings

\* C12: in every file written by save the key-mapping records are in strictly
\* ascending doc_id order, the doc-length records in strictly ascending doc_id
\* order, the term records in strictly ascending lexicographic term order and the
\* postings of each term record in strictly ascending doc_id order; the header's
\* num_terms and the section counts num_keys and num_doc_lengths are the numbers
\* of records written in their sections, which end where the file ends.
C12_FileLayoutOrder == \A p \in DOMAIN files : LayoutOrdered(files[p], bld)

\* A saved file with two key records, two doc-length records, three term records
\* (the empty term among them) and a term with two postings.
C12_Witness ==
    /\ result.op = "save" /\ result.exc = "none"
    /\ \E p \in DOMAIN files :
          /\ Len(KeySection(files[p]).ids) = 2
          /\ Len(LengthSection(files[p]).ids) = 2
          /\ Len(TermSection(files[p])) = 3
          /\ \E i \in 1..3 : Len(TermSection(files[p])[i].ids) = 2

\* C13: Builder.save and Builder.get_stats on a Builder that is not built, and
\* Reader.search, Reader.score_document and Reader.get_stats on a Reader that is
\* not loaded, raise RuntimeError, return nothing, write no file and leave the
\* object as it was.
C13_LifecycleGuards ==
    [][/\ (~ bld.built /\ result'.op \in {"save", "Builder.get_stats"})
            => /\ result'.exc = "RuntimeError"
               /\ bld' = bld /\ files' = files
               /\ (result'.op = "Builder.get_stats" => result'.ret = <<>>)
       /\ (~ rdr.loaded /\ result'.op \in {"search", "score_document", "Reader.get_stats"})
            => /\ result'.exc = "RuntimeError"
               /\ rdr' = rdr
               /\ result'.ret = <<>>]_vars

\* A get_stats refused by a Builder with three documents that was not built yet,
\* beside a Reader that was never loaded.
C13_Witness ==
    /\ ~ bld.built /\ bld.num_docs = 3 /\ rdr = ReaderInit
    /\ result.op = "Builder.get_stats" /\ result.exc = "RuntimeError"

\* The last call was a query of the given kind that returned.
Returned(op) == result.op = op /\ result.exc = "none"

\* The score score_document gives doc_id for the query of the last call.
ScoreOf(doc_id) == score_document(rdr, result.query, doc_id).ret

\* The candidate documents of the last call's query with a nonzero score.
NonzeroCandidates ==
    {d \in CandidateDocs(rdr, tokenize(result.query)) : ScoreOf(d) # <<0, 1>>}

\* C17 (as claimed): for every top_k, zero and negative values included, search
\* returns at most max(top_k, 0) entries, and for top_k >= 0 exactly
\* min(top_k, m) entries, m being the number of candidates with a nonzero score.
C17_TopKBounds ==
    Returned("search") =>
        /\ Len(result.ret) <= (IF result.top_k > 0 THEN result.top_k ELSE 0)
        /\ result.top_k >= 0
              => Len(result.ret) = Min(result.top_k, Cardinality(NonzeroCandidates))

\* C18: search returns its pairs in non-increasing score order; every returned
\* score is strictly greater than 0; the pairs name distinct doc IDs (by their
\* keys), each with the score score_document gives that doc ID for the query; and
\* no document left out has a score strictly greater than a returned one.
C18_SearchRanked ==
    Returned("search") =>
        /\ \A i \in 1..(Len(result.ret) - 1) : ~ RLess(result.ret[i][2], result.ret[i + 1][2])
        /\ \A i \in 1..Len(result.ret) : RLess(<<0, 1>>, result.ret[i][2])
        /\ \E f \in [1..Len(result.ret) -> DOMAIN rdr.doc_lengths] :
              /\ \A i, j \in 1..Len(result.ret) : i # j => f[i] # f[j]
              /\ \A i \in 1..Len(result.ret) :
                    /\ rdr.id_to_key[f[i]] = result.ret[i][1]
                    /\ ScoreOf(f[i]) = result.ret[i][2]
              /\ \A d \in DOMAIN rdr.doc_lengths \ {f[i] : i \in 1..Len(result.ret)} :
                    \A i \in 1..Len(result.ret) : ~ RLess(result.ret[i][2], ScoreOf(d))

\* A search with top_k = 2 over three candidates with three different scores: two
\* pairs returned, one document with a positive score left out.
C18_Witness ==
    /\ Returned("search") /\ result.top_k = 2 /\ Len(result.ret) = 2
    /\ Cardinality({ScoreOf(d) : d \in NonzeroCandidates}) = 3

\* C19: on a Reader loaded from a file the Builder wrote, score_document gives 0
\* to every doc ID that is in no posting list of a query term; a search whose
\* top_k does not cut the list returns exactly the documents of the length table
\* with a nonzero score; and a query none of whose terms is in the index returns
\* the empty list.
C19_PruningPreserves ==
    /\ (Returned("score_document")
          /\ result.doc_id \notin CandidateDocs(rdr, tokenize(result.query)))
         => result.ret = <<0, 1>>
    /\ (Returned("search") /\ result.top_k >= Cardinality(DOMAIN rdr.doc_lengths))
         => /\ Len(result.ret) = Cardinality({d \in DOMAIN rdr.doc_lengths : ScoreOf(d) # <<0, 1>>})
            /\ {result.ret[i][1] : i \in 1..Len(result.ret)}
                 = {rdr.id_to_key[d] : d \in {e \in DOMAIN rdr.doc_lengths : ScoreOf(e) # <<0, 1>>}}
    /\ (Returned("search")
          /\ \A i \in 1..Len(tokenize(result.query)) :
                tokenize(result.query)[i] \notin DOMAIN rdr.postings)
         => result.ret = <<>>

\* An uncut search for "c a" over three documents: one document matches only
\* the second term, and one document matches no term and is left out.
C19_Witness ==
    /\ Returned("search") /\ result.query = <<99, 32, 97>> /\ result.top_k = 3
    /\ Cardinality(DOMAIN rdr.doc_lengths) = 3 /\ Len(result.ret) = 2

\* C20: on a loaded Reader score_document returns 0.0, and does not raise, for
\* every doc_id that is not in the length table, negative and out-of-range IDs
\* included, whatever the query.
C20_UnknownDocScoresZero ==
    [][(rdr.loaded /\ result'.op = "score_document" /\ result'.doc_id \notin DOMAIN rdr.doc_lengths)
         => (result'.exc = "none" /\ result'.ret = <<0, 1>>)]_vars

\* score_document has returned for doc_id -1 and a query whose term is indexed.
C20_Witness ==
    /\ Returned("score_document") /\ rdr.loaded /\ result.doc_id = 0 - 1
    /\ result.query = <<97>> /\ <<97>> \in DOMAIN rdr.postings

\* The file f has a magic number that is not MAGIC, or the magic number and a
\* version that is not VERSION.
BadHeader(f) ==
    \/ Len(f) >= 4 /\ U32At(f, 0) # MAGIC
    \/ Len(f) >= 8 /\ U32At(f, 0) = MAGIC /\ U32At(f, 4) # VERSION

\* C14: load() of a file whose magic number is not 0x424D3235, or whose version
\* is not 1, raises ValueError after reading no more than the magic number and
\* the version, and leaves every field of the Reader as it was, of a new Reader
\* and of a loaded one alike.
C14_BadHeaderRejected ==
    [][\A p \in DOMAIN files :
          (result'.op = "load" /\ BadHeader(files[p]))
            => /\ result'.exc = "ValueError"
               /\ rdr' = rdr
               /\ LoadFile(rdr, files[p]).pos <= 8]_vars

\* A loaded Reader that has just refused a file of version 2 and kept its tables.
C14_Witness ==
    /\ rdr.loaded /\ rdr.postings # EmptyMap
    /\ result.op = "load" /\ result.exc = "ValueError"
    /\ \E p \in DOMAIN files : U32At(files[p], 0) = MAGIC /\ U32At(files[p], 4) = VERSION + 1

\* The file f is a strict prefix of the file g.
StrictPrefix(f, g) == Len(f) < Len(g) /\ f = SubSeq(g, 1, Len(f))

\* The exceptions of the kind a magic or version mismatch raises: ValueError and
\* its subclass UnicodeDecodeError.
FormatErrors == {"ValueError", "UnicodeDecodeError"}

\* C15 (as claimed): load() of every strict prefix of a file written by save
\* fails, and fails with the kind of error a magic or version mismatch raises.
C15_TruncationIsFormatError ==
    [][\A p \in DOMAIN files :
          (result'.op = "load" /\ StrictPrefix(files[p], SaveBytes(bld)))
            => result'.exc \in FormatErrors]_vars

\* C16 (as claimed): a load() that fails leaves every field of the Reader as it
\* was before the call.
C16_FailedLoadNoChange ==
    [][(result'.op = "load" /\ result'.exc # "none") => rdr' = rdr]_vars

\* The distinct tokens of a token list, in the order of their first occurrence.
RECURSIVE DistinctTokens(_, _)
DistinctTokens(tokens, seen) ==
    IF tokens = <<>> THEN seen
    ELSE DistinctTokens(Tail(tokens),
                        IF \E i \in 1..Len(seen) : seen[i] = Head(tokens)
                        THEN seen ELSE Append(seen, Head(tokens)))

\* The tokens joined by single spaces: a query text with exactly these tokens.
RECURSIVE JoinTokens(_)
JoinTokens(tokens) ==
    IF tokens = <<>> THEN <<>>
    ELSE IF Len(tokens) = 1 THEN Head(tokens)
    ELSE Head(tokens) \o <<32>> \o JoinTokens(Tail(tokens))

\* The query of the last call with every repeated term dropped.
DistinctQuery == JoinTokens(DistinctTokens(tokenize(result.query), <<>>))

\* C21 (as claimed): score_document and search depend only on the set of
\* distinct tokens of the query: the query with its repeated terms dropped gives
\* the same score and the same search result.
C21_DistinctTermsOnly ==
    /\ Returned("score_document")
         => result.ret = score_document(rdr, DistinctQuery, result.doc_id).ret
    /\ Returned("search")
         => result.ret = search(rdr, DistinctQuery, result.top_k).ret

\* C22: on a Reader loaded from a file the Builder wrote, every indexed term has
\* 0 <= df <= num_docs, also when keys were reused, so the argument of the
\* logarithm is at least 1 and _idf returns a value >= 0 without raising; for a
\* query term that is not in the index _idf returns 0.
C22_IdfNonNegative ==
    rdr.loaded =>
        /\ \A t \in DOMAIN rdr.term_doc_freq :
              /\ 0 <= rdr.term_doc_freq[t] /\ rdr.term_doc_freq[t] <= rdr.num_docs
              /\ ~ RLess(IdfArgument(rdr, rdr.term_doc_freq[t]), <<1, 1>>)
              /\ idf(rdr, t).exc = "none"
              /\ ~ RLess(idf(rdr, t).ret, <<0, 1>>)
        /\ \A q \in Queries : \A i \in 1..Len(tokenize(q)) :
              tokenize(q)[i] \notin DOMAIN rdr.term_doc_freq
                 => idf(rdr, tokenize(q)[i]) = Returns(rdr, <<0, 1>>)

\* A document scored on an index of four calls with a reused key (df below
\* num_docs), and one on an index where a term is in every document
\* (df = num_docs): this witness is the first, with a positive score.
C22_Witness ==
    /\ rdr.loaded /\ rdr.num_docs = 4 /\ Cardinality(DOMAIN rdr.doc_lengths) = 3
    /\ Returned("score_document") /\ RLess(<<0, 1>>, result.ret)

\* C28: for an index the Builder wrote, avgdl = 0 only if total_length = 0,
\* which holds only if every added token list was empty, and then no posting
\* list exists; so a loaded Reader with avgdl = 0 has no postings, and no
\* score_document or search, for any query and doc ID, divides by a zero avgdl.
C28_NoDivisionByZero ==
    /\ bld.total_length = 0 <=> (\A i \in 1..Len(history) : history[i].tokens = <<>>)
    /\ bld.total_length = 0
          => DOMAIN bld.temp_postings = {} /\ DOMAIN bld.postings = {}
    /\ bld.built => (bld.avgdl[1] = 0 <=> bld.total_length = 0)
    /\ rdr.loaded =>
          /\ rdr.avgdl[1] = 0 <=> bld.total_length = 0
          /\ rdr.avgdl[1] = 0 => DOMAIN rdr.postings = {}
          /\ \A query \in Queries, doc_id \in DocIdArgs :
                score_document(rdr, query, doc_id).exc # "ZeroDivisionError"
    /\ result.exc # "ZeroDivisionError"

\* A search with a non-empty query on the index of one empty document.
C28_Witness ==
    /\ rdr.loaded /\ rdr.num_docs = 1 /\ rdr.avgdl[1] = 0
    /\ Returned("search") /\ tokenize(result.query) # <<>> /\ result.ret = <<>>

\* The operations that read a loaded Reader, and those that read a built Builder.
ReaderQueries == {"search", "score_document", "Reader.get_stats"}
BuilderQueries == {"save", "Builder.get_stats"}

\* The last query issued again on Reader r.
Repeated(r, res) ==
    IF res.op = "search" THEN search(r, res.query, res.top_k).ret
    ELSE IF res.op = "score_document" THEN score_document(r, res.query, res.doc_id).ret
    ELSE reader_get_stats(r).ret

\* C29: on a loaded Reader, search, score_document and get_stats leave every
\* Reader field unchanged, and on a built Builder, save and get_stats leave
\* every Builder field unchanged; the same query issued again on the Reader
\* returns the same value.
C29_QueriesReadOnly ==
    [][ /\ (rdr.loaded /\ result'.op \in ReaderQueries)
            => /\ rdr' = rdr
               /\ result'.exc = "none" => Repeated(rdr', result') = result'.ret
        /\ (bld.built /\ result'.op \in BuilderQueries) => bld' = bld
      ]_vars

\* get_stats has returned on a loaded Reader whose index has postings.
C29_Witness ==
    /\ rdr.loaded /\ bld.built
    /\ Returned("Reader.get_stats") /\ result.ret.total_postings > 0

\* C23: both lifecycles are one-way. Once built is true it stays true, and it
\* becomes true only in a build() that returns; once loaded is true it stays
\* true, whatever call follows, a failing add, build or load included.
C23_LifecyclesOneWay ==
    [][ /\ bld.built => bld'.built
        /\ (~ bld.built /\ bld'.built) => (result'.op = "build" /\ result'.exc = "none")
        /\ rdr.loaded => rdr'.loaded
      ]_vars

\* A loaded Reader whose latest load failed, beside a built Builder.
C23_Witness ==
    /\ bld.built /\ rdr.loaded
    /\ result.op = "load" /\ result.exc # "none"

\* The state of a newly constructed Reader after load() of the bytes f.
LoadedAlone(f) == Finish(LoadFile(ReaderInit, f)).st

\* C25 (as claimed): a load(B) that returns on a Reader that holds exactly the
\* index of a file A leaves the Reader as a new Reader is after load(B) alone.
C25_SecondLoadOverwrites ==
    [][ \A filepath \in DOMAIN files :
          ( /\ result'.op = "load" /\ result'.exc = "none"
            /\ rdr.loaded
            /\ \E c \in OtherCorpora : rdr = LoadedAlone(IndexFile(c)) )
          => rdr' = LoadedAlone(files[filepath]) ]_vars

\* The latest call of h.
Last(h) == h[Len(h)]

\* temp_postings[term][d], 0 where the term or the doc ID has no entry.
FreqOf(tp, term, d) ==
    IF term \in DOMAIN tp /\ \E i \in 1..Len(tp[term]) : tp[term][i][1] = d
    THEN tp[term][CHOOSE i \in 1..Len(tp[term]) : tp[term][i][1] = d][2]
    ELSE 0

\* The sum of temp_postings[term][d] over the given terms.
RECURSIVE PostedTokens(_, _, _)
PostedTokens(tp, terms, d) ==
    IF terms = {} THEN 0
    ELSE FreqOf(tp, CHOOSE t \in terms : TRUE, d)
         + PostedTokens(tp, terms \ {CHOOSE t \in terms : TRUE}, d)

\* The calls of h made under key.
CallsUnder(h, key) == SelectSeq(h, LAMBDA call : call.key = key)

\* An add or add_tokenized that has just returned, under a key seen before.
DuplicateAdd ==
    /\ result'.op \in AddOps /\ result'.exc = "none"
    /\ Last(history').key \in DOMAIN bld.key_to_id

\* C24: an add under a key already seen assigns no new doc ID and leaves the
\* key tables as they are, overwrites doc_lengths[id] with the count of the
\* latest token list, increments num_docs, adds the count to total_length and
\* adds each token's occurrences to the counts the ID already has; so the
\* posting frequencies of the ID sum to the lengths of all token lists added
\* under the key while doc_lengths[id] is the length of the latest.
C24_DuplicateKey ==
    [][ DuplicateAdd =>
          /\ bld'.next_doc_id = bld.next_doc_id
          /\ bld'.key_to_id = bld.key_to_id
          /\ bld'.id_to_key = bld.id_to_key
          /\ bld'.doc_lengths = DictSet(bld.doc_lengths, bld.key_to_id[Last(history').key],
                                        Len(Last(history').tokens))
          /\ bld'.num_docs = bld.num_docs + 1
          /\ bld'.total_length = bld.total_length + Len(Last(history').tokens)
          /\ \A term \in TermsOf(history') \cup DOMAIN bld'.temp_postings :
                \A d \in DOMAIN bld'.id_to_key :
                   FreqOf(bld'.temp_postings, term, d)
                     = FreqOf(bld.temp_postings, term, d)
                       + (IF d = bld.key_to_id[Last(history').key]
                          THEN Count(term, Last(history').tokens) ELSE 0)
          /\ PostedTokens(bld'.temp_postings, DOMAIN bld'.temp_postings,
                          bld.key_to_id[Last(history').key])
               = SumLens(CallsUnder(history', Last(history').key))
      ]_vars

\* Two calls under one key, four tokens and then one: the recorded length is 1
\* and the ID's posting frequencies sum to 5.
C24_Witness ==
    /\ ~ bld.built /\ Len(history) = 2 /\ history[1].key = history[2].key
    /\ Len(history[1].tokens) = 4 /\ Len(history[2].tokens) = 1
    /\ result.op \in AddOps /\ result.exc = "none"
    /\ bld.doc_lengths[0] = 1
    /\ PostedTokens(bld.temp_postings, DOMAIN bld.temp_postings, 0) = 5

\* A second Builder driven by the calls of h, each made as add(key, text) where
\* the token list is the tokenization of a text and as add_tokenized(key,
\* tokens) where it is not (a token with an uppercase letter, an empty token).
RECURSIVE ReplayAsText(_, _)
ReplayAsText(b, h) ==
    IF h = <<>> THEN b
    ELSE ReplayAsText(
            IF tokenize(JoinTokens(Head(h).tokens)) = Head(h).tokens
            THEN add(b, Head(h).key, JoinTokens(Head(h).tokens)).st
            ELSE add_tokenized(b, Head(h).key, Head(h).tokens).st,
            Tail(h))

\* The Builder b after build() if the first Builder is built.
Built(b) == IF bld.built THEN build(b).st ELSE b

\* C26: add(key, text) has the effect of add_tokenized(key, tokenize(text)):
\* the Builder, driven by any mix of add and add_tokenized calls, is after every
\* call and after build() in the state of a Builder driven by the corresponding
\* add_tokenized calls alone, and of one driven by add wherever a text exists.
C26_AddIsAddTokenized ==
    /\ bld = Built(Replay(BuilderInit(bld.k1, bld.b), history))
    /\ bld = Built(ReplayAsText(BuilderInit(bld.k1, bld.b), history))

\* Three calls of both kinds, the latest an add(key, text) under a reused key,
\* and the Builder built.
C26_Witness ==
    /\ bld.built /\ Len(history) = 3
    /\ \E i \in 1..2 : Len(history[i].tokens) = 4
    /\ \E i \in 1..2 : history[i].key = history[3].key
    /\ history[3].tokens = tokenize(CHOOSE content \in Texts : TRUE)
    /\ (CHOOSE content \in Texts : TRUE) # JoinTokens(history[3].tokens)

\* The doc IDs that occur in the posting lists of a postings table.
PostedIds(postings) ==
    UNION {{postings[t][i][1] : i \in 1..Len(postings[t])} : t \in DOMAIN postings}

\* Every posted doc ID has a key and a length, and the two tables have the
\* same IDs, 0 .. n - 1.
Integrity(id_to_key, doc_lengths, postings, n) ==
    /\ PostedIds(postings) \subseteq DOMAIN id_to_key
    /\ PostedIds(postings) \subseteq DOMAIN doc_lengths
    /\ DOMAIN doc_lengths = DOMAIN id_to_key
    /\ DOMAIN id_to_key = 0..(n - 1)

\* C27: in every Builder state, and in a Reader loaded from a file the Builder
\* wrote, every doc ID of a posting list (temporary or finalized) is a key of
\* id_to_key and of doc_lengths, and both tables have exactly the IDs
\* 0 .. next_doc_id - 1; so every candidate of a search has a key and a length.
C27_ReferentialIntegrity ==
    /\ Integrity(bld.id_to_key, bld.doc_lengths, bld.temp_postings, bld.next_doc_id)
    /\ Integrity(bld.id_to_key, bld.doc_lengths, bld.postings, bld.next_doc_id)
    /\ rdr.loaded =>
          /\ Integrity(rdr.id_to_key, rdr.doc_lengths, rdr.postings, bld.next_doc_id)
          /\ \A query \in Queries :
                /\ CandidateDocs(rdr, tokenize(query)) \subseteq DOMAIN rdr.id_to_key
                /\ CandidateDocs(rdr, tokenize(query)) \subseteq DOMAIN rdr.doc_lengths

\* A loaded index of three calls under two keys whose postings name both IDs,
\* and a query with two candidates.
C27_Witness ==
    /\ rdr.loaded /\ rdr.num_docs = 3 /\ PostedIds(rdr.postings) = {0, 1}
    /\ \E query \in Queries : CandidateDocs(rdr, tokenize(query)) = {0, 1}

\* The frequency paired with doc_id in postings_list by a scan from the front,
\* 0 if no entry has doc_id.
RECURSIVE LinearScan(_, _)
LinearScan(postings_list, doc_id) ==
    IF postings_list = <<>> THEN 0
    ELSE IF Head(postings_list)[1] = doc_id THEN Head(postings_list)[2]
    ELSE LinearScan(Tail(postings_list), doc_id)

\* The number of entries between left and right, the ends included.
Interval(res) == res.right - res.left + 1

\* C30: on every strictly ascending posting list, the empty and the one-entry
\* list included, and for every doc_id, the lookup loop terminates (each pass
\* that does not leave the loop makes the interval left..right strictly
\* smaller, and the interval is never negative) and ends with tf the frequency
\* paired with doc_id if the list has it and 0 otherwise, as a linear scan gives.
C30_BinarySearchLookup ==
    [][ /\ (result.pc = "while" /\ result'.pc = "while")
            => (Interval(result') < Interval(result) /\ Interval(result') >= 0)
        /\ result'.pc = "done"
            => /\ result'.tf = LinearScan(result.postings_list, result.doc_id)
               /\ result'.tf = BinarySearch(result.postings_list, result.doc_id,
                                            0, Len(result.postings_list) - 1)
      ]_vars

\* The lookup has found the last entry of a list of full length, after moving
\* left up.
C30_Witness ==
    /\ result.op = "lookup" /\ result.pc = "done"
    /\ Len(result.postings_list) = MaxPostingId + 1
    /\ result.doc_id = MaxPostingId /\ result.left > 0 /\ result.tf = MaxFreq

====
